---- MODULE Spec2Model ----
(***************************************************************************)
(* Model of ragen/llm_agent/generation_constant_turns.py:                 *)
(* LLMGenerationManager, the constant-turn rollout loop between a policy   *)
(* and a batch of environments.                                            *)
(*                                                                         *)
(* Text is a sequence of characters: an ASCII character is the string of   *)
(* that character, any other character is the string "U+XXXX" of its code  *)
(* point in upper-case hexadecimal (at least four digits), and the text of *)
(* a special token is one atomic symbol.  A token matrix (a 2-D tensor) is *)
(* a sequence of rows of equal length, one row per environment.            *)
(***************************************************************************)
EXTENDS Integers, Sequences, FiniteSets, TLC

\* ------------------------------------------------------------------ bounds
\* Largest config.max_turns explored.
MaxTurns == 2
\* Longest raw response, in vocabulary tokens, given to _process_responses
\* in the text specification.
MaxChunks == 4

\* ------------------------------------------------------- generic helpers
Min(a, b) == IF a < b THEN a ELSE b
Max(a, b) == IF a > b THEN a ELSE b

RECURSIVE Flatten(_)
\* ''.join(parts)
Flatten(parts) ==
  IF parts = <<>> THEN <<>> ELSE Head(parts) \o Flatten(Tail(parts))

\* All sequences over S of length 0..n.
SeqsUpTo(S, n) == UNION {[1..k -> S] : k \in 0..n}

\* ------------------------------------------------------------- tokenizer
\* tokenizer.pad_token_id / tokenizer.pad_token
PadTokenId == 0
PadText == <<"<pad>">>
\* Id given to a character no vocabulary entry starts with.
UnkTokenId == 99

AnswerTag == <<"<", "/", "a", "n", "s", "w", "e", "r", ">">>
RewardLit == <<"r", "e", "w", "a", "r", "d", ":", " ">>
DoneLit   == <<"d", "o", "n", "e", ":", " ">>
TrueLit   == <<"T", "r", "u", "e">>
FalseLit  == <<"F", "a", "l", "s", "e">>
NL == "\n"

\* The vocabulary of the modelled tokenizer: token id -> text.
Vocab ==
  <<  <<"x">>,                                  \* 1
      AnswerTag,                                \* 2
      DoneLit \o TrueLit \o <<NL>>,             \* 3
      <<"<", "/", "a", "n", "s">>,              \* 4
      <<"w", "e", "r", ">">>,                   \* 5
      RewardLit \o <<"1">>,                     \* 6
      <<".", "5", NL>>,                         \* 7
      <<"y">>,                                  \* 8
      <<"U+0663">>                              \* 9  ARABIC-INDIC DIGIT THREE
  >>
VocabIds == 1..Len(Vocab)

TokText(t) ==
  IF t = PadTokenId THEN PadText
  ELSE IF t \in VocabIds THEN Vocab[t] ELSE <<"?">>

\* tokenizer.batch_decode(ids, skip_special_tokens=False), one row
Decode(row) == Flatten([i \in 1..Len(row) |-> TokText(row[i])])
batch_decode(ids) == [i \in 1..Len(ids) |-> Decode(ids[i])]

\* pat occurs in s at position i
IsAt(pat, s, i) ==
  /\ i >= 1
  /\ i + Len(pat) - 1 <= Len(s)
  /\ \A k \in 1..Len(pat) : s[i + k - 1] = pat[k]

\* Longest vocabulary entry (pad included) starting at position i of s.
BestTokenAt(s, i) ==
  LET cands == {t \in VocabIds \cup {PadTokenId} : IsAt(TokText(t), s, i)}
  IN IF cands = {} THEN UnkTokenId
     ELSE CHOOSE t \in cands :
            \A u \in cands : Len(TokText(u)) <= Len(TokText(t))

RECURSIVE TokenizeFrom(_, _)
TokenizeFrom(s, i) ==
  IF i > Len(s) THEN <<>>
  ELSE LET t == BestTokenAt(s, i)
           n == IF t = UnkTokenId THEN 1 ELSE Len(TokText(t))
       IN <<t>> \o TokenizeFrom(s, i + n)

\* tokenizer(text)['input_ids'] of one text, no special tokens added
Tokenize(s) == TokenizeFrom(s, 1)

RECURSIVE Pads(_)
Pads(n) == IF n <= 0 THEN <<>> ELSE <<PadTokenId>> \o Pads(n - 1)

SeqMaxLen(rows) ==
  IF rows = <<>> THEN 0
  ELSE CHOOSE n \in {Len(rows[i]) : i \in 1..Len(rows)} :
         \A i \in 1..Len(rows) : Len(rows[i]) <= n

\* tokenizer(texts, padding='longest', return_tensors='pt')['input_ids']:
\* every row padded to the longest one on the tokenizer's padding side.
TokenizeBatch(texts, side) ==
  LET rows == [i \in 1..Len(texts) |-> Tokenize(texts[i])]
      w == SeqMaxLen(rows)
  IN [i \in 1..Len(rows) |->
        IF side = "left" THEN Pads(w - Len(rows[i])) \o rows[i]
        ELSE rows[i] \o Pads(w - Len(rows[i]))]

\* ------------------------------------------------------ _process_responses
\* s.find(pat): first position of pat in s, 0 when absent
FindFirst(pat, s) ==
  LET hits == {i \in 1..Len(s) : IsAt(pat, s, i)}
  IN IF hits = {} THEN 0 ELSE CHOOSE i \in hits : \A j \in hits : i <= j

Contains(pat, s) == FindFirst(pat, s) # 0

\* resp.split('</answer>')[0] + '</answer>' if '</answer>' in resp else resp
TruncateAfterAnswer(resp) ==
  LET i == FindFirst(AnswerTag, resp)
  IN IF i = 0 THEN resp ELSE SubSeq(resp, 1, i - 1) \o AnswerTag

AsciiDigits == {"0", "1", "2", "3", "4", "5", "6", "7", "8", "9"}

\* The decimal digits (Unicode category Nd, Unicode 14.0) outside ASCII.
UnicodeDigits ==
  {
    "U+0660", "U+0661", "U+0662", "U+0663", "U+0664", "U+0665",
    "U+0666", "U+0667", "U+0668", "U+0669", "U+06F0", "U+06F1",
    "U+06F2", "U+06F3", "U+06F4", "U+06F5", "U+06F6", "U+06F7",
    "U+06F8", "U+06F9", "U+07C0", "U+07C1", "U+07C2", "U+07C3",
    "U+07C4", "U+07C5", "U+07C6", "U+07C7", "U+07C8", "U+07C9",
    "U+0966", "U+0967", "U+0968", "U+0969", "U+096A", "U+096B",
    "U+096C", "U+096D", "U+096E", "U+096F", "U+09E6", "U+09E7",
    "U+09E8", "U+09E9", "U+09EA", "U+09EB", "U+09EC", "U+09ED",
    "U+09EE", "U+09EF", "U+0A66", "U+0A67", "U+0A68", "U+0A69",
    "U+0A6A", "U+0A6B", "U+0A6C", "U+0A6D", "U+0A6E", "U+0A6F",
    "U+0AE6", "U+0AE7", "U+0AE8", "U+0AE9", "U+0AEA", "U+0AEB",
    "U+0AEC", "U+0AED", "U+0AEE", "U+0AEF", "U+0B66", "U+0B67",
    "U+0B68", "U+0B69", "U+0B6A", "U+0B6B", "U+0B6C", "U+0B6D",
    "U+0B6E", "U+0B6F", "U+0BE6", "U+0BE7", "U+0BE8", "U+0BE9",
    "U+0BEA", "U+0BEB", "U+0BEC", "U+0BED", "U+0BEE", "U+0BEF",
    "U+0C66", "U+0C67", "U+0C68", "U+0C69", "U+0C6A", "U+0C6B",
    "U+0C6C", "U+0C6D", "U+0C6E", "U+0C6F", "U+0CE6", "U+0CE7",
    "U+0CE8", "U+0CE9", "U+0CEA", "U+0CEB", "U+0CEC", "U+0CED",
    "U+0CEE", "U+0CEF", "U+0D66", "U+0D67", "U+0D68", "U+0D69",
    "U+0D6A", "U+0D6B", "U+0D6C", "U+0D6D", "U+0D6E", "U+0D6F",
    "U+0DE6", "U+0DE7", "U+0DE8", "U+0DE9", "U+0DEA", "U+0DEB",
    "U+0DEC", "U+0DED", "U+0DEE", "U+0DEF", "U+0E50", "U+0E51",
    "U+0E52", "U+0E53", "U+0E54", "U+0E55", "U+0E56", "U+0E57",
    "U+0E58", "U+0E59", "U+0ED0", "U+0ED1", "U+0ED2", "U+0ED3",
    "U+0ED4", "U+0ED5", "U+0ED6", "U+0ED7", "U+0ED8", "U+0ED9",
    "U+0F20", "U+0F21", "U+0F22", "U+0F23", "U+0F24", "U+0F25",
    "U+0F26", "U+0F27", "U+0F28", "U+0F29", "U+1040", "U+1041",
    "U+1042", "U+1043", "U+1044", "U+1045", "U+1046", "U+1047",
    "U+1048", "U+1049", "U+1090", "U+1091", "U+1092", "U+1093",
    "U+1094", "U+1095", "U+1096", "U+1097", "U+1098", "U+1099",
    "U+17E0", "U+17E1", "U+17E2", "U+17E3", "U+17E4", "U+17E5",
    "U+17E6", "U+17E7", "U+17E8", "U+17E9", "U+1810", "U+1811",
    "U+1812", "U+1813", "U+1814", "U+1815", "U+1816", "U+1817",
    "U+1818", "U+1819", "U+1946", "U+1947", "U+1948", "U+1949",
    "U+194A", "U+194B", "U+194C", "U+194D", "U+194E", "U+194F",
    "U+19D0", "U+19D1", "U+19D2", "U+19D3", "U+19D4", "U+19D5",
    "U+19D6", "U+19D7", "U+19D8", "U+19D9", "U+1A80", "U+1A81",
    "U+1A82", "U+1A83", "U+1A84", "U+1A85", "U+1A86", "U+1A87",
    "U+1A88", "U+1A89", "U+1A90", "U+1A91", "U+1A92", "U+1A93",
    "U+1A94", "U+1A95", "U+1A96", "U+1A97", "U+1A98", "U+1A99",
    "U+1B50", "U+1B51", "U+1B52", "U+1B53", "U+1B54", "U+1B55",
    "U+1B56", "U+1B57", "U+1B58", "U+1B59", "U+1BB0", "U+1BB1",
    "U+1BB2", "U+1BB3", "U+1BB4", "U+1BB5", "U+1BB6", "U+1BB7",
    "U+1BB8", "U+1BB9", "U+1C40", "U+1C41", "U+1C42", "U+1C43",
    "U+1C44", "U+1C45", "U+1C46", "U+1C47", "U+1C48", "U+1C49",
    "U+1C50", "U+1C51", "U+1C52", "U+1C53", "U+1C54", "U+1C55",
    "U+1C56", "U+1C57", "U+1C58", "U+1C59", "U+A620", "U+A621",
    "U+A622", "U+A623", "U+A624", "U+A625", "U+A626", "U+A627",
    "U+A628", "U+A629", "U+A8D0", "U+A8D1", "U+A8D2", "U+A8D3",
    "U+A8D4", "U+A8D5", "U+A8D6", "U+A8D7", "U+A8D8", "U+A8D9",
    "U+A900", "U+A901", "U+A902", "U+A903", "U+A904", "U+A905",
    "U+A906", "U+A907", "U+A908", "U+A909", "U+A9D0", "U+A9D1",
    "U+A9D2", "U+A9D3", "U+A9D4", "U+A9D5", "U+A9D6", "U+A9D7",
    "U+A9D8", "U+A9D9", "U+A9F0", "U+A9F1", "U+A9F2", "U+A9F3",
    "U+A9F4", "U+A9F5", "U+A9F6", "U+A9F7", "U+A9F8", "U+A9F9",
    "U+AA50", "U+AA51", "U+AA52", "U+AA53", "U+AA54", "U+AA55",
    "U+AA56", "U+AA57", "U+AA58", "U+AA59", "U+ABF0", "U+ABF1",
    "U+ABF2", "U+ABF3", "U+ABF4", "U+ABF5", "U+ABF6", "U+ABF7",
    "U+ABF8", "U+ABF9", "U+FF10", "U+FF11", "U+FF12", "U+FF13",
    "U+FF14", "U+FF15", "U+FF16", "U+FF17", "U+FF18", "U+FF19",
    "U+104A0", "U+104A1", "U+104A2", "U+104A3", "U+104A4", "U+104A5",
    "U+104A6", "U+104A7", "U+104A8", "U+104A9", "U+10D30", "U+10D31",
    "U+10D32", "U+10D33", "U+10D34", "U+10D35", "U+10D36", "U+10D37",
    "U+10D38", "U+10D39", "U+11066", "U+11067", "U+11068", "U+11069",
    "U+1106A", "U+1106B", "U+1106C", "U+1106D", "U+1106E", "U+1106F",
    "U+110F0", "U+110F1", "U+110F2", "U+110F3", "U+110F4", "U+110F5",
    "U+110F6", "U+110F7", "U+110F8", "U+110F9", "U+11136", "U+11137",
    "U+11138", "U+11139", "U+1113A", "U+1113B", "U+1113C", "U+1113D",
    "U+1113E", "U+1113F", "U+111D0", "U+111D1", "U+111D2", "U+111D3",
    "U+111D4", "U+111D5", "U+111D6", "U+111D7", "U+111D8", "U+111D9",
    "U+112F0", "U+112F1", "U+112F2", "U+112F3", "U+112F4", "U+112F5",
    "U+112F6", "U+112F7", "U+112F8", "U+112F9", "U+11450", "U+11451",
    "U+11452", "U+11453", "U+11454", "U+11455", "U+11456", "U+11457",
    "U+11458", "U+11459", "U+114D0", "U+114D1", "U+114D2", "U+114D3",
    "U+114D4", "U+114D5", "U+114D6", "U+114D7", "U+114D8", "U+114D9",
    "U+11650", "U+11651", "U+11652", "U+11653", "U+11654", "U+11655",
    "U+11656", "U+11657", "U+11658", "U+11659", "U+116C0", "U+116C1",
    "U+116C2", "U+116C3", "U+116C4", "U+116C5", "U+116C6", "U+116C7",
    "U+116C8", "U+116C9", "U+11730", "U+11731", "U+11732", "U+11733",
    "U+11734", "U+11735", "U+11736", "U+11737", "U+11738", "U+11739",
    "U+118E0", "U+118E1", "U+118E2", "U+118E3", "U+118E4", "U+118E5",
    "U+118E6", "U+118E7", "U+118E8", "U+118E9", "U+11950", "U+11951",
    "U+11952", "U+11953", "U+11954", "U+11955", "U+11956", "U+11957",
    "U+11958", "U+11959", "U+11C50", "U+11C51", "U+11C52", "U+11C53",
    "U+11C54", "U+11C55", "U+11C56", "U+11C57", "U+11C58", "U+11C59",
    "U+11D50", "U+11D51", "U+11D52", "U+11D53", "U+11D54", "U+11D55",
    "U+11D56", "U+11D57", "U+11D58", "U+11D59", "U+11DA0", "U+11DA1",
    "U+11DA2", "U+11DA3", "U+11DA4", "U+11DA5", "U+11DA6", "U+11DA7",
    "U+11DA8", "U+11DA9", "U+16A60", "U+16A61", "U+16A62", "U+16A63",
    "U+16A64", "U+16A65", "U+16A66", "U+16A67", "U+16A68", "U+16A69",
    "U+16AC0", "U+16AC1", "U+16AC2", "U+16AC3", "U+16AC4", "U+16AC5",
    "U+16AC6", "U+16AC7", "U+16AC8", "U+16AC9", "U+16B50", "U+16B51",
    "U+16B52", "U+16B53", "U+16B54", "U+16B55", "U+16B56", "U+16B57",
    "U+16B58", "U+16B59", "U+1D7CE", "U+1D7CF", "U+1D7D0", "U+1D7D1",
    "U+1D7D2", "U+1D7D3", "U+1D7D4", "U+1D7D5", "U+1D7D6", "U+1D7D7",
    "U+1D7D8", "U+1D7D9", "U+1D7DA", "U+1D7DB", "U+1D7DC", "U+1D7DD",
    "U+1D7DE", "U+1D7DF", "U+1D7E0", "U+1D7E1", "U+1D7E2", "U+1D7E3",
    "U+1D7E4", "U+1D7E5", "U+1D7E6", "U+1D7E7", "U+1D7E8", "U+1D7E9",
    "U+1D7EA", "U+1D7EB", "U+1D7EC", "U+1D7ED", "U+1D7EE", "U+1D7EF",
    "U+1D7F0", "U+1D7F1", "U+1D7F2", "U+1D7F3", "U+1D7F4", "U+1D7F5",
    "U+1D7F6", "U+1D7F7", "U+1D7F8", "U+1D7F9", "U+1D7FA", "U+1D7FB",
    "U+1D7FC", "U+1D7FD", "U+1D7FE", "U+1D7FF", "U+1E140", "U+1E141",
    "U+1E142", "U+1E143", "U+1E144", "U+1E145", "U+1E146", "U+1E147",
    "U+1E148", "U+1E149", "U+1E2F0", "U+1E2F1", "U+1E2F2", "U+1E2F3",
    "U+1E2F4", "U+1E2F5", "U+1E2F6", "U+1E2F7", "U+1E2F8", "U+1E2F9",
    "U+1E950", "U+1E951", "U+1E952", "U+1E953", "U+1E954", "U+1E955",
    "U+1E956", "U+1E957", "U+1E958", "U+1E959", "U+1FBF0", "U+1FBF1",
    "U+1FBF2", "U+1FBF3", "U+1FBF4", "U+1FBF5", "U+1FBF6", "U+1FBF7",
    "U+1FBF8", "U+1FBF9"
  }

\* \d in a str pattern: any Unicode decimal digit, not only 0-9
IsDigit(c) == c \in AsciiDigits \/ c \in UnicodeDigits

RECURSIVE DigitsEnd(_, _)
\* position after the longest run of digits starting at i (\d+ is greedy)
DigitsEnd(s, i) ==
  IF i <= Len(s) /\ IsDigit(s[i]) THEN DigitsEnd(s, i + 1) ELSE i

\* reward: \d+\.\d+\n   at position i: the position after the match, or 0
MatchReward(s, i) ==
  IF ~IsAt(RewardLit, s, i) THEN 0
  ELSE LET a == i + Len(RewardLit)
           b == DigitsEnd(s, a)
       IN IF b = a \/ b > Len(s) \/ s[b] # "." THEN 0
          ELSE LET c == b + 1
                   d == DigitsEnd(s, c)
               IN IF d = c \/ d > Len(s) \/ s[d] # NL THEN 0 ELSE d + 1

\* done: (True|False)\n   at position i: the position after the match, or 0
MatchDone(s, i) ==
  IF ~IsAt(DoneLit, s, i) THEN 0
  ELSE LET a == i + Len(DoneLit)
           b == IF IsAt(TrueLit, s, a) THEN a + Len(TrueLit)
                ELSE IF IsAt(FalseLit, s, a) THEN a + Len(FalseLit)
                ELSE 0
       IN IF b = 0 \/ b > Len(s) \/ s[b] # NL THEN 0 ELSE b + 1

\* hack_pattern = r'reward: \d+\.\d+\n|done: (True|False)\n' tried at i
HackMatchEnd(s, i) ==
  IF MatchReward(s, i) # 0 THEN MatchReward(s, i) ELSE MatchDone(s, i)

\* re.search(hack_pattern, s)
ReSearch(s) == \E i \in 1..Len(s) : HackMatchEnd(s, i) # 0

RECURSIVE ReSubFrom(_, _)
\* re.sub(hack_pattern, '', s): one left-to-right pass over s, every
\* leftmost non-overlapping match dropped, the scan resuming after it.
ReSubFrom(s, i) ==
  IF i > Len(s) THEN <<>>
  ELSE LET e == HackMatchEnd(s, i)
       IN IF e # 0 THEN ReSubFrom(s, e)
          ELSE <<s[i]>> \o ReSubFrom(s, i + 1)

RemoveHackPatterns(resp) == ReSubFrom(resp, 1)

\* LLMGenerationManager._process_responses
_process_responses(responses) ==
  [i \in 1..Len(responses) |->
     RemoveHackPatterns(TruncateAfterAnswer(responses[i]))]

\* ------------------------------------------------------------ tensors
\* The batch: one row per environment.
Envs == {1, 2}

Width(m) == Len(m[1])
IsPad(t) == t = PadTokenId
NonPad(row) == SelectSeq(row, LAMBDA t : ~IsPad(t))

RECURSIVE SumSeq(_)
SumSeq(row) == IF row = <<>> THEN 0 ELSE Head(row) + SumSeq(Tail(row))

SetMax(S) == CHOOSE n \in S : \A k \in S : k <= n

\* torch.cat(tensors, dim=1)
Cat(tensors) ==
  [r \in DOMAIN tensors[1] |->
     Flatten([i \in 1..Len(tensors) |-> tensors[i][r]])]

\* t[:, :k]
SliceFirst(m, k) == [r \in DOMAIN m |-> SubSeq(m[r], 1, Min(k, Len(m[r])))]

\* t[:, -k:]  (Python: -0 is 0, so k = 0 keeps every column)
SliceLast(m, k) ==
  IF k = 0 THEN m
  ELSE [r \in DOMAIN m |->
          SubSeq(m[r], Max(1, Len(m[r]) - k + 1), Len(m[r]))]

\* t[:, []]
NoColumns(m) == [r \in DOMAIN m |-> <<>>]

\* TensorHelper.create_attention_mask
create_attention_mask(input_ids) ==
  [r \in DOMAIN input_ids |->
     [c \in DOMAIN input_ids[r] |-> IF IsPad(input_ids[r][c]) THEN 0 ELSE 1]]

\* TensorHelper.create_position_ids: (cumsum(mask) - 1) * mask
create_position_ids(mask) ==
  [r \in DOMAIN mask |->
     [c \in DOMAIN mask[r] |->
        (SumSeq(SubSeq(mask[r], 1, c)) - 1) * mask[r][c]]]

\* attention_mask.sum(dim=1).max()
EffectiveLen(mask) == SetMax({SumSeq(mask[r]) : r \in DOMAIN mask})

\* TensorHelper.concatenate_with_padding: the tensors joined column-wise,
\* then every row's pad tokens moved to one side, the other tokens keeping
\* their order.
concatenate_with_padding(tensors, pad_to_left) ==
  LET cat == Cat(tensors)
  IN [r \in DOMAIN cat |->
        LET body == NonPad(cat[r])
            fill == Pads(Len(cat[r]) - Len(body))
        IN IF pad_to_left THEN fill \o body ELSE body \o fill]

\* TensorHelper.cut_to_effective_len(batch, keys) with cut_left
cut_to_effective_len(batch) ==
  LET effective_len == EffectiveLen(batch.attention_mask)
  IN [input_ids      |-> SliceLast(batch.input_ids, effective_len),
      attention_mask |-> SliceLast(batch.attention_mask, effective_len),
      position_ids   |-> SliceLast(batch.position_ids, effective_len)]

\* ------------------------------------------------------------- dicts
EmptyDict == [k \in {} |-> 0]

\* A merge in which the value already present wins.
DictUpdateKeepOld(d, m) ==
  [k \in DOMAIN d \cup DOMAIN m |-> IF k \in DOMAIN d THEN d[k] ELSE m[k]]

\* d.update(m)
DictUpdate(d, m) ==
  [k \in DOMAIN d \cup DOMAIN m |-> IF k \in DOMAIN m THEN m[k] ELSE d[k]]

\* ------------------------------------------------------------- state
VARIABLES
  config,               \* GenerationConfig
  padding_side,         \* tokenizer.padding_side
  initial_input_ids,    \* run_llm_loop's argument
  rollings,             \* the rolling batch given to generate_sequences
  original_left_side,
  original_right_side,
  meta_info,
  step,                 \* number of completed turns
  pc,                   \* position in run_llm_loop
  gen_input,            \* the batch the last generate_sequences call got
  gen_output,           \* what it returned; responses re-tokenized later
  responses,            \* the processed response texts
  next_obs,             \* observation texts from execute_predictions
  dones,                \* termination flags from execute_predictions
  next_obs_ids,
  final_output,
  calls,                \* log of the calls made, in order
  env_calls,            \* per environment: execute_predictions calls it was in
  done_at,              \* per environment: first turn it reported done, or 0
  meta_log,             \* the meta_info each generate_sequences call returned
  chrono,               \* per row: response and observation tokens appended
  raw_responses,        \* text specification: input of _process_responses
  clean_responses,      \* text specification: its output
  clean_twice,          \* text specification: output of a second application
  tpc                   \* text specification: position

loopVars ==
  <<config, padding_side, initial_input_ids, rollings, original_left_side,
    original_right_side, meta_info, step, pc, gen_input, gen_output,
    responses, next_obs, dones, next_obs_ids, final_output, calls,
    env_calls, done_at, meta_log, chrono>>
textVars == <<raw_responses, clean_responses, clean_twice, tpc>>
vars == <<loopVars, textVars>>

\* LLMGenerationManager._batch_tokenize
_batch_tokenize(texts) == TokenizeBatch(texts, padding_side)

\* An observation cut that keeps the last columns instead of the first.
_process_next_obs_keep_last(obs) ==
  LET ids == TokenizeBatch(obs, padding_side)
  IN IF Width(ids) > config.max_obs_length
     THEN SliceLast(ids, config.max_obs_length)
     ELSE ids

\* LLMGenerationManager._process_next_obs (the tokenizer adds no special
\* tokens of its own)
_process_next_obs(obs) ==
  LET ids == TokenizeBatch(obs, padding_side)
  IN IF Width(ids) > config.max_obs_length
     THEN SliceFirst(ids, config.max_obs_length)
     ELSE ids

\* A budget check that forgets config.max_prompt_length.
MaxLenNoBudget(effective_len) == effective_len

\* max_len = min(self.config.max_prompt_length, effective_len)
MaxLen(effective_len) == Min(config.max_prompt_length, effective_len)

\* new_input_ids[:, :max_len]: the slice that cuts the rolling state.
RollingSlice(m, max_len) == SliceFirst(m, max_len)

\* LLMGenerationManager._update_rolling_state
_update_rolling_state(roll, cur_responses, obs_ids) ==
  LET new_input_ids ==
        concatenate_with_padding(<<roll.input_ids, cur_responses, obs_ids>>,
                                 TRUE)
      new_attention_mask == create_attention_mask(new_input_ids)
      new_position_ids == create_position_ids(new_attention_mask)
      max_len == MaxLen(EffectiveLen(new_attention_mask))
  IN [input_ids      |-> RollingSlice(new_input_ids, max_len),
      position_ids   |-> RollingSlice(new_position_ids, max_len),
      attention_mask |-> RollingSlice(new_attention_mask, max_len)]

\* A right-side cut that keeps the newest columns instead of the oldest.
RightSliceKeepNewest(m, max_len) ==
  [r \in DOMAIN m |-> SubSeq(m[r], Len(m[r]) - max_len + 1, Len(m[r]))]

\* responses[:, :max_len]: the slice that cuts the right side.
RightSlice(m, max_len) == SliceFirst(m, max_len)

\* LLMGenerationManager._update_right_side
_update_right_side(right_side, cur_responses, obs_ids) ==
  LET resp == concatenate_with_padding(
                <<right_side.responses, cur_responses, obs_ids>>, FALSE)
      max_len == MaxLen(EffectiveLen(create_attention_mask(resp)))
  IN [responses |-> RightSlice(resp, max_len)]

\* torch.cat([left_side['input_ids'], right_side['responses']], dim=1)
FinalInputIds(left_side, right_side) ==
  Cat(<<left_side.input_ids, right_side.responses>>)

\* LLMGenerationManager._compose_final_output
_compose_final_output(left_side, right_side, meta) ==
  LET attention_mask ==
        Cat(<<create_attention_mask(left_side.input_ids),
              create_attention_mask(right_side.responses)>>)
  IN [responses      |-> right_side.responses,
      prompts        |-> left_side.input_ids,
      input_ids      |-> FinalInputIds(left_side, right_side),
      attention_mask |-> attention_mask,
      position_ids   |-> create_position_ids(attention_mask),
      meta_info      |-> DictUpdate(EmptyDict, meta)]

\* A loop that also stops once every environment has reported done.
LoopStopsWhenAllDone ==
  step < config.max_turns /\ \E e \in Envs : ~dones[e]

\* for step in range(self.config.max_turns)
LoopContinues == step < config.max_turns

\* initial_input_ids[:, -self.config.max_start_length:]
LeftSide(ids) == [input_ids |-> SliceLast(ids, config.max_start_length)]

\* ------------------------------------------------------- input pools
\* (max_start_length, max_prompt_length, max_obs_length) explored.
ConfigShapes ==
  {<<2, 7, 2>>, <<3, 4, 2>>, <<2, 4, 1>>, <<3, 7, 1>>, <<0, 7, 2>>}

Configs(shapes) ==
  {[max_turns         |-> t,
    max_start_length  |-> c[1],
    max_prompt_length |-> c[2],
    max_obs_length    |-> c[3]] : t \in 0..MaxTurns, c \in shapes}

\* Left-padded prompt batches, the second with an all-pad first column.
InitialPool ==
  { << <<1, 1>>, <<0, 1>> >>,
    << <<0, 0, 1>>, <<0, 1, 1>> >> }

\* Token matrices generate_sequences may return: a row that ended early, a
\* row with text after </answer>, an empty batch, rows with a hack pattern,
\* a batch whose every row ends in padding.
ResponsePool ==
  { << <<1, 1>>, <<1, 0>> >>,
    << <<2, 1>>, <<1, 1>> >>,
    << <<0, 0>>, <<0, 0>> >>,
    << <<3, 1>>, <<1, 2>> >>,
    << <<1, 0>>, <<1, 0>> >> }

\* Observation texts execute_predictions may return, one per environment.
ObsY(n) == [i \in 1..n |-> "y"]
ObsPool ==
  { <<ObsY(1), ObsY(3)>>, <<ObsY(2), ObsY(2)>>, <<ObsY(0), ObsY(0)>> }

NoneDone == [e \in Envs |-> FALSE]
DonesPool == [Envs -> BOOLEAN]

\* meta_info dicts generate_sequences may return.
MetaPool ==
  { EmptyDict,
    [k \in {"a"} |-> 1],
    [k \in {"a", "b"} |-> IF k = "a" THEN 2 ELSE 1],
    [k \in {"b"} |-> 2] }

\* -------------------------------------------------------------- Init
IdleText ==
  /\ raw_responses = <<>>
  /\ clean_responses = <<>>
  /\ clean_twice = <<>>
  /\ tpc = "idle"

\* The state at the head of the loop of run_llm_loop (lines 126-137).
\* gen_batch holds initial_input_ids with the attention mask and position
\* ids that belong to them.
InitLoop(cfgs, sides, inits) ==
  /\ config \in cfgs
  /\ padding_side \in sides
  /\ initial_input_ids \in inits
  /\ rollings =
       [input_ids      |-> initial_input_ids,
        attention_mask |-> create_attention_mask(initial_input_ids),
        position_ids   |->
          create_position_ids(create_attention_mask(initial_input_ids))]
  /\ original_left_side = LeftSide(initial_input_ids)
  /\ original_right_side = [responses |-> NoColumns(initial_input_ids)]
  /\ meta_info = EmptyDict
  /\ step = 0
  /\ pc = "loop"
  /\ gen_input = rollings
  /\ gen_output = [responses |-> NoColumns(initial_input_ids),
                   meta_info |-> EmptyDict]
  /\ responses = <<>>
  /\ next_obs = <<>>
  /\ dones = NoneDone
  /\ next_obs_ids = NoColumns(initial_input_ids)
  /\ final_output = EmptyDict
  /\ calls = <<>>
  /\ env_calls = [e \in Envs |-> 0]
  /\ done_at = [e \in Envs |-> 0]
  /\ meta_log = <<>>
  /\ chrono = [e \in Envs |-> <<>>]

\* ------------------------------------------------------------ actions
\* Lines 141-149: cut the rolling batch, call generate_sequences, merge
\* the meta_info it returned.
Generate(resp_pool, meta_pool) ==
  /\ pc = "loop"
  /\ LoopContinues
  /\ \E r \in resp_pool, m \in meta_pool :
       /\ gen_output' = [responses |-> r, meta_info |-> m]
       /\ meta_info' = DictUpdate(meta_info, m)
       /\ meta_log' = Append(meta_log, m)
  /\ rollings' = cut_to_effective_len(rollings)
  /\ gen_input' = rollings'
  /\ calls' = Append(calls, "generate_sequences")
  /\ pc' = "generated"
  /\ UNCHANGED <<config, padding_side, initial_input_ids,
                 original_left_side, original_right_side, step, responses,
                 next_obs, dones, next_obs_ids, final_output, env_calls,
                 done_at, chrono, textVars>>

\* Lines 151-156: decode, _process_responses, tokenize again.
ProcessResponses ==
  /\ pc = "generated"
  /\ responses' = _process_responses(batch_decode(gen_output.responses))
  /\ gen_output' =
       [gen_output EXCEPT !.responses = _batch_tokenize(responses')]
  /\ calls' = Append(calls, "_process_responses")
  /\ pc' = "processed"
  /\ UNCHANGED <<config, padding_side, initial_input_ids, rollings,
                 original_left_side, original_right_side, meta_info, step,
                 gen_input, next_obs, dones, next_obs_ids, final_output,
                 env_calls, done_at, meta_log, chrono, textVars>>

\* Lines 162-165: execute_predictions on the whole list envs, then
\* _process_next_obs.
ExecutePredictions(obs_pool, dones_pool) ==
  /\ pc = "processed"
  /\ \E o \in obs_pool, d \in dones_pool :
       /\ next_obs' = o
       /\ dones' = d
       /\ next_obs_ids' = _process_next_obs(o)
       /\ done_at' = [e \in Envs |->
                        IF done_at[e] = 0 /\ d[e] THEN step + 1
                        ELSE done_at[e]]
  /\ env_calls' = [e \in Envs |-> env_calls[e] + 1]
  /\ calls' = Append(calls, "execute_predictions")
  /\ pc' = "executed"
  /\ UNCHANGED <<config, padding_side, initial_input_ids, rollings,
                 original_left_side, original_right_side, meta_info, step,
                 gen_input, gen_output, responses, final_output, meta_log,
                 chrono, textVars>>

\* Lines 168-177: _update_rolling_state, then _update_right_side.
UpdateStates ==
  /\ pc = "executed"
  /\ rollings' =
       _update_rolling_state(rollings, gen_output.responses, next_obs_ids)
  /\ original_right_side' =
       _update_right_side(original_right_side, gen_output.responses,
                          next_obs_ids)
  /\ chrono' = [e \in Envs |->
                  chrono[e] \o NonPad(gen_output.responses[e])
                            \o NonPad(next_obs_ids[e])]
  /\ calls' = calls \o <<"_update_rolling_state", "_update_right_side">>
  /\ step' = step + 1
  /\ pc' = "loop"
  /\ UNCHANGED <<config, padding_side, initial_input_ids,
                 original_left_side, meta_info, gen_input, gen_output,
                 responses, next_obs, dones, next_obs_ids, final_output,
                 env_calls, done_at, meta_log, textVars>>

\* Lines 180-181: the loop is over; compose the final output.
Finish ==
  /\ pc = "loop"
  /\ ~LoopContinues
  /\ final_output' =
       _compose_final_output(original_left_side, original_right_side,
                             meta_info)
  /\ pc' = "done"
  /\ UNCHANGED <<config, padding_side, initial_input_ids, rollings,
                 original_left_side, original_right_side, meta_info, step,
                 gen_input, gen_output, responses, next_obs, dones,
                 next_obs_ids, calls, env_calls, done_at, meta_log, chrono,
                 textVars>>

\* ------------------------------------------- specification: the tensors
\* run_llm_loop over every response and observation of the pools; the
\* collaborators report one meta_info and no termination.
Init ==
  /\ InitLoop(Configs(ConfigShapes), {"left", "right"}, InitialPool)
  /\ IdleText

Next ==
  \/ Generate(ResponsePool, {[k \in {"a"} |-> 1]})
  \/ ProcessResponses
  \/ ExecutePredictions(ObsPool, {NoneDone})
  \/ UpdateStates
  \/ Finish

Spec == Init /\ [][Next]_vars

\* -------------------------------------- specification: the control flow
\* run_llm_loop with every meta_info and termination report of the pools,
\* over one response batch and one observation batch.
InitCtl ==
  /\ InitLoop(Configs({<<2, 7, 2>>}), {"right"}, {<< <<1, 1>>, <<0, 1>> >>})
  /\ IdleText

NextCtl ==
  \/ Generate({<< <<1, 1>>, <<1, 0>> >>}, MetaPool)
  \/ ProcessResponses
  \/ ExecutePredictions({<<ObsY(1), ObsY(2)>>}, DonesPool)
  \/ UpdateStates
  \/ Finish

SpecCtl == InitCtl /\ [][NextCtl]_vars

\* ------------------------------------------- specification: the texts
\* _process_responses applied to every list of one raw response of up to
\* MaxChunks vocabulary tokens, alone or followed by a second response,
\* and then applied to its own output.
TextTokens == (1..7) \cup {9}
RawTexts == {Decode(r) : r \in SeqsUpTo(TextTokens, MaxChunks)}
SecondTexts == {Decode(<<3, 2, 1>>), Decode(<<1>>)}

InitText ==
  /\ InitLoop(Configs({<<2, 7, 2>>}), {"right"}, {<< <<1, 1>>, <<0, 1>> >>})
  /\ config.max_turns = 0
  /\ raw_responses \in
       {<<r>> : r \in RawTexts} \cup
       {<<r, t>> : r \in RawTexts, t \in SecondTexts}
  /\ clean_responses = <<>>
  /\ clean_twice = <<>>
  /\ tpc = "input"

ProcessText ==
  /\ tpc = "input"
  /\ clean_responses' = _process_responses(raw_responses)
  /\ tpc' = "processed"
  /\ UNCHANGED <<loopVars, raw_responses, clean_twice>>

ProcessAgain ==
  /\ tpc = "processed"
  /\ clean_twice' = _process_responses(clean_responses)
  /\ tpc' = "again"
  /\ UNCHANGED <<loopVars, raw_responses, clean_responses>>

NextText == ProcessText \/ ProcessAgain

SpecText == InitText /\ [][NextText]_vars

\* ------------------------------------------------------------ claims
IsPrefix(a, b) == Len(a) <= Len(b) /\ a = SubSeq(b, 1, Len(a))

EndsWith(s, pat) == IsAt(pat, s, Len(s) - Len(pat) + 1)

Occurrences(pat, s) == Cardinality({i \in 1..Len(s) : IsAt(pat, s, i)})

CountOf(log, name) == Cardinality({i \in 1..Len(log) : log[i] = name})

\* The calls of one turn, in order.
TurnCalls ==
  <<"generate_sequences", "_process_responses", "execute_predictions",
    "_update_rolling_state", "_update_right_side">>

\* Largest per-row count of non-pad tokens in the concatenation
\* rolling input_ids ++ response ++ observation of the last turn.
TurnEffectiveLen ==
  SetMax({Len(NonPad(gen_input.input_ids[r]))
            + Len(NonPad(gen_output.responses[r]))
            + Len(NonPad(next_obs_ids[r])) : r \in Envs})

AfterTurn == step >= 1 /\ pc \in {"loop", "done"}

\* C1: run_llm_loop runs exactly config.max_turns turns: the calls made
\* are, at every moment, whole turns generate_sequences ->
\* _process_responses -> execute_predictions -> _update_rolling_state ->
\* _update_right_side followed by the started part of one more; when the
\* loop is over generate_sequences and execute_predictions were each called
\* max_turns times, every environment was in every execute_predictions
\* call whatever it reported as done, and with max_turns = 0 no call was
\* made.
C1_ConstantTurns ==
  /\ \A i \in 1..Len(calls) :
       calls[i] = TurnCalls[((i - 1) % Len(TurnCalls)) + 1]
  /\ pc = "done" =>
       /\ Len(calls) = Len(TurnCalls) * config.max_turns
       /\ CountOf(calls, "generate_sequences") = config.max_turns
       /\ CountOf(calls, "execute_predictions") = config.max_turns
       /\ \A e \in Envs : env_calls[e] = config.max_turns

\* C1 witness: a two-turn run is over in which an environment reported
\* done in the first turn and was still in the second call.
C1_Witness ==
  /\ pc = "done"
  /\ config.max_turns = 2
  /\ \E e \in Envs : done_at[e] = 1 /\ env_calls[e] = 2
  /\ \A e \in Envs : done_at[e] = 1

\* C2: after every turn the rolling input_ids, attention_mask and
\* position_ids have the same width in every row, and that width is
\* min(max_prompt_length, largest per-row count of non-pad tokens of the
\* concatenation), so never more than max_prompt_length.
C2_RollingWidth ==
  AfterTurn =>
    LET w == Min(config.max_prompt_length, TurnEffectiveLen)
    IN /\ w <= config.max_prompt_length
       /\ \A r \in Envs :
            /\ Len(rollings.input_ids[r]) = w
            /\ Len(rollings.attention_mask[r]) = w
            /\ Len(rollings.position_ids[r]) = w

\* C2 witness: a turn whose concatenation was longer than the budget and
\* was cut to it, and one row shorter than the other.
C2_Witness ==
  /\ AfterTurn
  /\ TurnEffectiveLen > config.max_prompt_length
  /\ Width(rollings.input_ids) = config.max_prompt_length
  /\ \E r \in Envs : \E c \in DOMAIN rollings.input_ids[r] :
       IsPad(rollings.input_ids[r][c])

\* C3: whenever the longest row of (previous rolling input_ids ++ response
\* ++ observation) fits within max_prompt_length, the non-pad tokens of
\* every row of the new rolling input_ids are the previous non-pad tokens,
\* then the response's, then the observation's: no token is lost.
C3_NoTokenLost ==
  (AfterTurn /\ TurnEffectiveLen <= config.max_prompt_length) =>
    \A r \in Envs :
      NonPad(rollings.input_ids[r]) =
        NonPad(gen_input.input_ids[r])
          \o NonPad(gen_output.responses[r])
          \o NonPad(next_obs_ids[r])

\* C4: no response returned by _process_responses contains a match of the
\* hack pattern, and applying _process_responses again changes nothing.
C4_NoHackLeft ==
  /\ tpc \in {"processed", "again"} =>
       \A i \in 1..Len(clean_responses) : ~ReSearch(clean_responses[i])
  /\ tpc = "again" => clean_twice = clean_responses

\* C5: the returned list has the length and order of the input; a response
\* with '</answer>' comes back ending with '</answer>', holding it exactly
\* once, and is the text before the first '</answer>' less its hack
\* matches, followed by the tag; a response without '</answer>' comes back
\* less its hack matches.
C5_AnswerTruncation ==
  tpc \in {"processed", "again"} =>
    /\ Len(clean_responses) = Len(raw_responses)
    /\ \A i \in 1..Len(raw_responses) :
         LET raw == raw_responses[i]
             out == clean_responses[i]
             at == FindFirst(AnswerTag, raw)
         IN IF at # 0
            THEN /\ EndsWith(out, AnswerTag)
                 /\ Occurrences(AnswerTag, out) = 1
                 /\ out = RemoveHackPatterns(SubSeq(raw, 1, at - 1))
                            \o AnswerTag
            ELSE out = RemoveHackPatterns(raw)

\* part is the last k columns of m (all of them when m has fewer).
LastColumnsAre(part, m, k) ==
  \A r \in Envs :
    /\ Len(part[r]) = Min(k, Len(m[r]))
    /\ \A c \in 1..Len(part[r]) :
         part[r][c] = m[r][Len(m[r]) - Len(part[r]) + c]

\* C6: the left side is the last max_start_length columns of
\* initial_input_ids (all its columns when it has fewer) and no turn
\* changes it; the final output has prompts = that left side, responses =
\* the accumulated right side, input_ids = prompts followed by responses
\* row by row, attention_mask and position_ids as wide as input_ids, and
\* attention_mask 1 exactly where input_ids is not the pad token.
C6_FinalOutput ==
  /\ LastColumnsAre(original_left_side.input_ids, initial_input_ids,
                    config.max_start_length)
  /\ pc = "done" =>
       /\ final_output.prompts = original_left_side.input_ids
       /\ final_output.responses = original_right_side.responses
       /\ \A r \in Envs :
            /\ final_output.input_ids[r] =
                 final_output.prompts[r] \o final_output.responses[r]
            /\ Len(final_output.attention_mask[r]) =
                 Len(final_output.prompts[r])
                   + Len(final_output.responses[r])
            /\ Len(final_output.position_ids[r]) =
                 Len(final_output.input_ids[r])
            /\ \A c \in 1..Len(final_output.input_ids[r]) :
                 /\ final_output.attention_mask[r][c] \in {0, 1}
                 /\ final_output.attention_mask[r][c] = 1
                      <=> ~IsPad(final_output.input_ids[r][c])

\* Every non-pad token of the row comes before every pad token.
PadsLast(row) ==
  \A c \in 1..Len(row) : \A d \in 1..Len(row) :
    (IsPad(row[c]) /\ ~IsPad(row[d])) => d < c

\* C7: the accumulated responses are never wider than max_prompt_length,
\* every row has its non-pad tokens before its pad tokens, the non-pad
\* tokens of a row are a prefix of the row's chronological sequence
\* response_1, observation_1, response_2, ..., and the whole of it when
\* the longest row fits in max_prompt_length.
C7_RightSide ==
  /\ \A r \in Envs :
       /\ Len(original_right_side.responses[r]) <= config.max_prompt_length
       /\ PadsLast(original_right_side.responses[r])
       /\ IsPrefix(NonPad(original_right_side.responses[r]), chrono[r])
  /\ (\A r \in Envs : Len(chrono[r]) <= config.max_prompt_length) =>
       \A r \in Envs : NonPad(original_right_side.responses[r]) = chrono[r]

\* C7 witness: after a turn one row's chronological sequence is longer
\* than max_prompt_length and was cut to max_prompt_length tokens, the
\* last of which is a response token followed by dropped observations,
\* while another row still holds its whole sequence and a pad token.
C7_Witness ==
  /\ AfterTurn
  /\ \E r \in Envs :
       /\ Len(chrono[r]) > config.max_prompt_length
       /\ Len(NonPad(original_right_side.responses[r]))
            = config.max_prompt_length
       /\ chrono[r][config.max_prompt_length]
            # chrono[r][config.max_prompt_length + 1]
  /\ \E r \in Envs :
       /\ NonPad(original_right_side.responses[r]) = chrono[r]
       /\ Len(chrono[r]) < Len(original_right_side.responses[r])

\* C8: _process_next_obs returns one row per observation, as wide as
\* min(longest tokenized observation, max_obs_length), holding the first
\* columns of the tokenized batch unchanged.
C8_ObsTruncation ==
  pc \in {"executed"} =>
    LET ids == TokenizeBatch(next_obs, padding_side)
    IN /\ Len(next_obs_ids) = Len(next_obs)
       /\ \A r \in 1..Len(next_obs) :
            /\ Len(next_obs_ids[r]) =
                 Min(SeqMaxLen([i \in 1..Len(next_obs) |->
                                  Tokenize(next_obs[i])]),
                     config.max_obs_length)
            /\ Len(next_obs_ids[r]) <= config.max_obs_length
            /\ \A c \in 1..Len(next_obs_ids[r]) :
                 next_obs_ids[r][c] = ids[r][c]

\* C8 witness: the tokenized observations were wider than max_obs_length,
\* the rows of different lengths, and a non-pad token was dropped.
C8_Witness ==
  /\ pc = "executed"
  /\ LET ids == TokenizeBatch(next_obs, padding_side)
     IN /\ Width(ids) > config.max_obs_length
        /\ Width(next_obs_ids) = config.max_obs_length
        /\ Len(next_obs[1]) # Len(next_obs[2])
        /\ \E r \in Envs : ~IsPad(ids[r][Width(ids)])
        /\ \E r \in Envs : IsPad(ids[r][1])

\* The last turn whose generate_sequences call reported key k.
LatestReport(k) ==
  CHOOSE i \in 1..Len(meta_log) :
    /\ k \in DOMAIN meta_log[i]
    /\ \A j \in (i + 1)..Len(meta_log) : k \notin DOMAIN meta_log[j]

\* C9: the meta_info of the final output holds exactly the keys reported
\* by generate_sequences in any turn, each with the value of the latest
\* turn that reported it; there is one report per turn, so none with
\* max_turns = 0.
C9_MetaInfo ==
  pc = "done" =>
    /\ Len(meta_log) = config.max_turns
    /\ DOMAIN final_output.meta_info =
         UNION {DOMAIN meta_log[i] : i \in 1..Len(meta_log)}
    /\ \A k \in DOMAIN final_output.meta_info :
         final_output.meta_info[k] = meta_log[LatestReport(k)][k]

\* C9 witness: a two-turn run is over in which a key was reported twice
\* with different values and another key only in the first turn.
C9_Witness ==
  /\ pc = "done"
  /\ Len(meta_log) = 2
  /\ \E k \in DOMAIN meta_log[1] \cap DOMAIN meta_log[2] :
       meta_log[1][k] # meta_log[2][k]
  /\ (DOMAIN meta_log[1]) \ (DOMAIN meta_log[2]) # {}

====
